---- MODULE Spec2Model ----
(***************************************************************************)
(* Model of nvidia_exporter (src/nvidia_exporter.go): the main goroutine   *)
(* starts scrapeSmi in the background and then serves /metrics; scrapeSmi  *)
(* registers the gauges, checks the interval, spawns nvidia-smi and turns  *)
(* every output line into gauge updates.                                   *)
(*                                                                         *)
(* Byte strings are sequences of one-character strings.  A float64 is the  *)
(* record [neg, mant, scale] standing for (-1)^neg * mant * 10^(-scale),   *)
(* kept canonical (mant carries no trailing decimal zero unless scale = 0),*)
(* so that two fields denote the same float exactly when the records are   *)
(* equal; the sign is kept for zero, as float64 does.                      *)
(***************************************************************************)
EXTENDS Integers, Sequences, FiniteSets, TLC

(***************************************************************************)
(* Bounds of the model.                                                    *)
(***************************************************************************)
\* number of lines scrapeSmi reads successfully before the model stops reading
MaxLines == 2
\* the wall clock gives the times 1 to MaxTime
MaxTime == 2
\* number of distinct value rows nvidia-smi prints
MaxRows == 2
\* number of scrapeSmi steps one /metrics request may fall behind: the steps taken
\* since the request read the first thing that a step has changed since
MaxSpan == 3
\* the -interval flag ranges over -MaxIntervalDs..MaxIntervalDs tenths of a second
MaxIntervalDs == 36

(***************************************************************************)
(* The stats table.                                                        *)
(***************************************************************************)
stats ==
  << [name |-> "memory.used",        metric |-> "nvidia_memory_used_megabytes"],
     [name |-> "memory.total",       metric |-> "nvidia_memory_total_megabytes"],
     [name |-> "utilization.gpu",    metric |-> "nvidia_gpu_utilization_percent"],
     [name |-> "utilization.memory", metric |-> "nvidia_memory_utilization_percent"],
     [name |-> "temperature.gpu",    metric |-> "nvidia_temperature_celsius"],
     [name |-> "power.draw",         metric |-> "nvidia_power_draw_watts"] >>

lastUpdatedName == "nvidia_last_updated_time"

\* len(stats)
NumStats == Len(stats)

\* every name the program registers
AllGaugeNames == {lastUpdatedName} \cup {stats[i].metric : i \in 1..NumStats}

(***************************************************************************)
(* strconv.ParseFloat(s, 64) on the alphabet of the model: digits, sign,   *)
(* point, and bytes that never occur in a float literal.                   *)
(***************************************************************************)
Digit == {"0", "1", "2", "3", "4", "5", "6", "7", "8", "9"}

DigitVal(c) ==
  CASE c = "0" -> 0 [] c = "1" -> 1 [] c = "2" -> 2 [] c = "3" -> 3
    [] c = "4" -> 4 [] c = "5" -> 5 [] c = "6" -> 6 [] c = "7" -> 7
    [] c = "8" -> 8 [] c = "9" -> 9

RECURSIVE DigitsVal(_)
DigitsVal(s) ==
  IF s = << >> THEN 0
  ELSE 10 * DigitsVal(SubSeq(s, 1, Len(s) - 1)) + DigitVal(s[Len(s)])

RECURSIVE Canon(_, _)
Canon(m, sc) ==
  IF sc > 0 /\ m % 10 = 0 THEN Canon(m \div 10, sc - 1) ELSE <<m, sc>>

MkFloat(neg, m, sc) ==
  [neg |-> neg, mant |-> Canon(m, sc)[1], scale |-> Canon(m, sc)[2]]

ParseFloat(s) ==
  LET signed == Len(s) > 0 /\ s[1] \in {"+", "-"}
      body   == IF signed THEN SubSeq(s, 2, Len(s)) ELSE s
      dots   == {i \in 1..Len(body) : body[i] = "."}
      wellFormed ==
        /\ \A i \in 1..Len(body) : body[i] \in Digit \cup {"."}
        /\ Cardinality(dots) <= 1
        /\ \E i \in 1..Len(body) : body[i] \in Digit
      dot    == IF dots = {} THEN Len(body) + 1 ELSE CHOOSE i \in dots : TRUE
      whole  == SubSeq(body, 1, dot - 1)
      frac   == SubSeq(body, dot + 1, Len(body))
  IN  IF wellFormed
      THEN [err |-> FALSE,
            value |-> MkFloat(signed /\ s[1] = "-", DigitsVal(whole \o frac), Len(frac))]
      ELSE [err |-> TRUE, value |-> MkFloat(FALSE, 0, 0)]

(***************************************************************************)
(* bufio.Reader.ReadBytes('\n') on the bytes the pipe delivers before it   *)
(* blocks or ends: the bytes up to and including the first line feed, or   *)
(* all the bytes and an error when the stream ends without one.            *)
(***************************************************************************)
ReadBytes(buf) ==
  LET nl == {i \in 1..Len(buf) : buf[i] = "\n"}
  IN  IF nl = {}
      THEN [line |-> buf, err |-> TRUE]
      ELSE [line |-> SubSeq(buf, 1, CHOOSE i \in nl : \A j \in nl : i <= j),
            err |-> FALSE]

\* line[:len(line)-1]
DropLast(line) == SubSeq(line, 1, Len(line) - 1)

(***************************************************************************)
(* strings.Split(s, ", "): leftmost non-overlapping separators.            *)
(***************************************************************************)
RECURSIVE SplitFrom(_, _, _)
SplitFrom(s, start, i) ==
  IF i + 1 > Len(s) THEN << SubSeq(s, start, Len(s)) >>
  ELSE IF s[i] = "," /\ s[i + 1] = " "
       THEN << SubSeq(s, start, i - 1) >> \o SplitFrom(s, i + 2, i + 2)
       ELSE SplitFrom(s, start, i + 1)

Split(s) == SplitFrom(s, 1, 1)

(***************************************************************************)
(* fmt.Sprintf("%.0f", interval.Seconds()) for an interval of ds tenths of *)
(* a second: the nearest whole number, a tie going to the even one, with   *)
(* the sign of the interval kept in front (so -0.4s prints as "-0").       *)
(***************************************************************************)
Abs(x) == IF x < 0 THEN -x ELSE x

RoundHalfEven(a) ==
  LET q == a \div 10
      r == a % 10
  IN  IF r > 5 \/ (r = 5 /\ q % 2 = 1) THEN q + 1 ELSE q

\* FormatSeconds cutting the fraction off instead of rounding
FormatSeconds_Truncating(ds) ==
  IF ds < 0 THEN "-" \o ToString(Abs(ds) \div 10)
  ELSE ToString(ds \div 10)

FormatSeconds(ds) ==
  IF ds < 0 THEN "-" \o ToString(RoundHalfEven(Abs(ds)))
  ELSE ToString(RoundHalfEven(ds))

(***************************************************************************)
(* What nvidia-smi may put on the pipe for one read.                       *)
(***************************************************************************)
RECURSIVE NatChars(_)
NatChars(n) ==
  LET d == << "0", "1", "2", "3", "4", "5", "6", "7", "8", "9" >>
  IN  IF n < 10 THEN << d[n + 1] >> ELSE NatChars(n \div 10) \o << d[(n % 10) + 1] >>

\* the text nvidia-smi prints for stat i in value row v
FieldText(v, i) ==
  CASE i = 1 -> NatChars(10 * v + 2)
    [] i = 2 -> NatChars(4 * v) \o << "." >>
    [] i = 3 -> << "0" >> \o NatChars(v)
    [] i = 4 -> << "+" >> \o NatChars(3 * v)
    [] i = 5 -> << "-" >> \o NatChars(v - 1)
    [] OTHER -> NatChars(v) \o << ".", "5" >> \o (IF v % 2 = 0 THEN << "0" >> ELSE << >>)

Gpus == { << "0" >>, << "1" >> }

Rows == 1..MaxRows

GoodFields(g, v) == << g >> \o [i \in 1..NumStats |-> FieldText(v, i)]

RECURSIVE Join(_)
Join(fs) ==
  IF Len(fs) = 0 THEN << >>
  ELSE IF Len(fs) = 1 THEN fs[1]
  ELSE fs[1] \o << ",", " " >> \o Join(Tail(fs))

\* texts that are not floats
BadTokens ==
  << << "a", "b", "c" >>, << >>, << "1", " " >>, << "1", ",", "2" >> >>

GoodLines == { Join(GoodFields(g, v)) : g \in Gpus, v \in Rows }

\* the faulty lines are all variations of the first row of gpu 0
Faulty == GoodFields(<< "0" >>, 1)

\* a text that is not a float in the place of one stat: every stat with one of
\* the texts, the first stat with each of them
BadFieldLines ==
  { Join([Faulty EXCEPT ![k + 1] = BadTokens[((k - 1) % Len(BadTokens)) + 1]]) :
      k \in 1..NumStats }
  \cup { Join([Faulty EXCEPT ![2] = BadTokens[t]]) : t \in 1..Len(BadTokens) }

ShortLines ==
  { Join(SubSeq(Faulty, 1, n)) : n \in {0, 2, NumStats} }
  \cup { Join([SubSeq(Faulty, 1, NumStats) EXCEPT ![2] = << "a", "b", "c" >>]) }

LongLines ==
  { Join(Faulty \o << t >>) : t \in { << "7" >>, << >>, << "a", "b", "c" >> } }

CrLines == { Join(Faulty) \o << "\r" >> }

LineTexts == GoodLines \cup BadFieldLines \cup ShortLines \cup LongLines \cup CrLines

\* a whole line, or the bytes before the stream ends without a line feed
Terminated == { l \o << "\n" >> : l \in LineTexts }

Unterminated == { << >> } \cup { Join(SubSeq(Faulty, 1, n)) : n \in {3, NumStats + 1} }

(***************************************************************************)
(* State.                                                                  *)
(***************************************************************************)
VARIABLES
  interval,     \* the -interval flag, in tenths of a second
  mpc,          \* position of main
  pc,           \* position of scrapeSmi
  idx,          \* index of the range-over-stats loop scrapeSmi is in (0-based i)
  regLog,       \* collectors registered in the default registry, in order
  queryValues,  \* queryValues
  seconds,      \* seconds
  cmdArgs,      \* cmd.Args
  spawned,      \* number of nvidia-smi processes started
  smiUp,        \* the started process is there to write on the pipe
  line,         \* line
  data,         \* data
  gpu,          \* gpu
  lastUpdated,  \* value of the lastUpdated gauge
  gaugeVec,     \* gaugeVec[i][g]: value of the child of stats[i].metric labelled g
  now,          \* the wall clock as time.Now().Unix() gave it last
  exit,         \* "none" while the process runs, else what ended it
  req,          \* the /metrics request being answered, if any
  response,     \* the /metrics response written by the step just taken, if any
  hist,         \* history: the lines read so far, as ReadBytes returned them
  before        \* history: the gauges when the current line was read

vars == << interval, mpc, pc, idx, regLog, queryValues, seconds, cmdArgs, spawned,
           smiUp, line, data, gpu, lastUpdated, gaugeVec, now, exit, req,
           response, hist, before >>

\* a GaugeVec without children
NoChildren == [g \in {} |-> 0]

\* the float64 zero a new gauge holds
Zero == MkFloat(FALSE, 0, 0)

NoScrape == [taken |-> FALSE]

NoRequest == [open |-> FALSE]

\* the collectors the prometheus package registers by itself
DefaultCollectors == << "process_*", "go_*" >>

registered == { regLog[k] : k \in 1..Len(regLog) }

\* flag.Duration("interval", 5*time.Second, ...), in tenths of a second
DefaultInterval == 50

\* every value of the flag the model tries, negative and sub-second ones included
Intervals == (0 - MaxIntervalDs)..MaxIntervalDs

StartState ==
  /\ mpc = "go"
  /\ pc = "idle"
  /\ idx = 0
  /\ regLog = DefaultCollectors
  /\ queryValues = << >>
  /\ seconds = ""
  /\ cmdArgs = << >>
  /\ spawned = 0
  /\ smiUp = FALSE
  /\ line = << >>
  /\ data = << >>
  /\ gpu = << >>
  /\ lastUpdated = 0
  /\ gaugeVec = [i \in 1..NumStats |-> NoChildren]
  /\ now = 1
  /\ exit = "none"
  /\ req = NoRequest
  /\ response = NoScrape
  /\ hist = << >>
  /\ before = [vec |-> [i \in 1..NumStats |-> NoChildren], last |-> 0]

(***************************************************************************)
(* The registry.                                                           *)
(***************************************************************************)
\* prometheus.MustRegister(c) panics when the name is already registered
MustRegister(name) ==
  IF name \in registered
  THEN /\ exit' = "panic"
       /\ UNCHANGED regLog
  ELSE /\ regLog' = Append(regLog, name)
       /\ UNCHANGED exit

\* metric.With(prometheus.Labels{"gpu": g}): the child of that label, made if missing
WithChild(children, g) ==
  [x \in (DOMAIN children) \cup {g} |-> IF x \in DOMAIN children THEN children[x] ELSE Zero]

\* Set(value) on the child labelled g
SetChild(children, g, value) == [children EXCEPT ![g] = value]

(***************************************************************************)
(* promhttp.Handler(): Registry.Gather lists the registered collectors     *)
(* under the registry lock, lets every collector list its metrics (a       *)
(* GaugeVec: its children, under the vector's lock) and reads each value   *)
(* when the metric is written out, all of it while scrapeSmi runs on.  A   *)
(* read gives the same result at every moment between two writes of what   *)
(* it reads, so the model takes it either right before scrapeSmi writes    *)
(* that gauge or when the response is completed.                           *)
(***************************************************************************)
NewRequest ==
  [open |-> TRUE, span |-> 0, cols |-> registered,
   list |-> [i \in {} |-> {}], vals |-> [i \in {} |-> NoChildren],
   lastRead |-> FALSE, last |-> 0]

\* the children of vector i in the response: as listed, or as they are now
Listed(r, i) ==
  IF stats[i].metric \notin r.cols THEN {}
  ELSE IF i \in DOMAIN r.list THEN r.list[i]
  ELSE DOMAIN gaugeVec[i]

\* the value of child g of vector i in the response: as read, or as it is now
ValueRead(r, i, g) ==
  IF i \in DOMAIN r.vals /\ g \in DOMAIN r.vals[i] THEN r.vals[i][g] ELSE gaugeVec[i][g]

\* the metric families of the response: a vector without listed children has none
Gather(r) ==
  [taken |-> TRUE,
   names |-> { DefaultCollectors[k] : k \in 1..Len(DefaultCollectors) }
             \cup ({lastUpdatedName} \cap r.cols)
             \cup { stats[i].metric : i \in { j \in 1..NumStats : Listed(r, j) # {} } },
   last  |-> IF lastUpdatedName \notin r.cols THEN 0
             ELSE IF r.lastRead THEN r.last ELSE lastUpdated,
   vec   |-> [i \in 1..NumStats |-> [g \in Listed(r, i) |-> ValueRead(r, i, g)]]]

\* the request has read something that scrapeSmi has changed since or changes in
\* its next step; until then it is where a request arriving now would be
Behind(r) ==
  \/ pc \in {"regLast", "regStat"}
  \/ r.cols # registered
  \/ r.lastRead
  \/ DOMAIN r.list # {}

\* scrapeSmi takes a step: a request that is behind falls one more step behind
Overlap == IF req.open /\ Behind(req) THEN [req EXCEPT !.span = @ + 1] ELSE req

SamplerRuns == exit = "none" /\ (req.open => req.span < MaxSpan)

mainVars == << interval, mpc >>

cmdVars == << queryValues, seconds, cmdArgs, spawned, smiUp >>

lineVars == << line, data, gpu, hist, before >>

(***************************************************************************)
(* main.                                                                   *)
(***************************************************************************)
\* go scrapeSmi()
MainGo ==
  /\ exit = "none" /\ mpc = "go"
  /\ response' = NoScrape
  /\ mpc' = "listen"
  /\ pc' = "regLast"
  /\ UNCHANGED << interval, idx, regLog, cmdVars, lineVars, lastUpdated, gaugeVec,
                  now, exit, req >>

\* http.Handle("/metrics", promhttp.Handler()); log.Fatal(http.ListenAndServe(addr, nil)):
\* the listener serves, or fails to bind and the process exits
MainListen ==
  /\ exit = "none" /\ mpc = "listen"
  /\ response' = NoScrape
  /\ \E bound \in BOOLEAN :
       IF bound THEN mpc' = "serving" /\ UNCHANGED exit
       ELSE exit' = "listen" /\ UNCHANGED mpc
  /\ UNCHANGED << interval, pc, idx, regLog, cmdVars, lineVars, lastUpdated, gaugeVec,
                  now, req >>

\* a GET /metrics arrives: Gather lists the registered collectors
ServeStart ==
  /\ exit = "none" /\ mpc = "serving"
  /\ ~req.open
  /\ req' = NewRequest
  /\ response' = NoScrape
  /\ UNCHANGED << mainVars, pc, idx, regLog, cmdVars, lineVars, lastUpdated, gaugeVec,
                  now, exit >>

\* the request reads the lastUpdated gauge before scrapeSmi sets it
ServeReadLast ==
  /\ exit = "none" /\ req.open
  /\ pc = "setLast"
  /\ lastUpdatedName \in req.cols /\ ~req.lastRead
  /\ req' = [req EXCEPT !.lastRead = TRUE, !.last = lastUpdated]
  /\ response' = NoScrape
  /\ UNCHANGED << mainVars, pc, idx, regLog, cmdVars, lineVars, lastUpdated, gaugeVec,
                  now, exit >>

\* the request lists the children of a vector before scrapeSmi adds one to it
ServeCollect ==
  /\ exit = "none" /\ req.open
  /\ pc = "field"
  /\ ~ParseFloat(data[idx + 2]).err
  /\ gpu \notin DOMAIN gaugeVec[idx + 1]
  /\ stats[idx + 1].metric \in req.cols /\ (idx + 1) \notin DOMAIN req.list
  /\ req' = [req EXCEPT
               !.list = [i \in (DOMAIN @) \cup {idx + 1} |->
                           IF i = idx + 1 THEN DOMAIN gaugeVec[i] ELSE @[i]],
               !.vals = [i \in (DOMAIN @) \cup {idx + 1} |->
                           IF i = idx + 1 THEN NoChildren ELSE @[i]]]
  /\ response' = NoScrape
  /\ UNCHANGED << mainVars, pc, idx, regLog, cmdVars, lineVars, lastUpdated, gaugeVec,
                  now, exit >>

\* the request reads the value of a child before scrapeSmi sets it, listing the
\* children of its vector first if it has not yet
ServeRead ==
  /\ exit = "none" /\ req.open
  /\ pc = "set"
  /\ stats[idx + 1].metric \in req.cols
  /\ IF (idx + 1) \in DOMAIN req.list
     THEN gpu \in req.list[idx + 1] /\ gpu \notin DOMAIN req.vals[idx + 1]
     ELSE TRUE
  /\ LET i    == idx + 1
         kids == IF i \in DOMAIN req.list THEN req.list[i] ELSE DOMAIN gaugeVec[i]
         old  == IF i \in DOMAIN req.vals THEN req.vals[i] ELSE NoChildren
         new  == [g \in (DOMAIN old) \cup {gpu} |->
                    IF g = gpu THEN gaugeVec[i][gpu] ELSE old[g]]
     IN  req' = [req EXCEPT
                   !.list = [j \in (DOMAIN @) \cup {i} |-> IF j = i THEN kids ELSE @[j]],
                   !.vals = [j \in (DOMAIN @) \cup {i} |-> IF j = i THEN new ELSE @[j]]]
  /\ response' = NoScrape
  /\ UNCHANGED << mainVars, pc, idx, regLog, cmdVars, lineVars, lastUpdated, gaugeVec,
                  now, exit >>

\* the request reads what it has not read yet and the response is written
ServeEnd ==
  /\ exit = "none" /\ req.open
  /\ response' = Gather(req)
  /\ req' = NoRequest
  /\ UNCHANGED << mainVars, pc, idx, regLog, cmdVars, lineVars, lastUpdated, gaugeVec,
                  now, exit >>

(***************************************************************************)
(* scrapeSmi.                                                              *)
(***************************************************************************)
\* lastUpdated := prometheus.NewGauge(...); prometheus.MustRegister(lastUpdated)
RegLast ==
  /\ SamplerRuns /\ pc = "regLast"
  /\ req' = Overlap /\ response' = NoScrape
  /\ MustRegister(lastUpdatedName)
  /\ queryValues' = << "index" >>
  /\ idx' = 0
  /\ pc' = "regStat"
  /\ UNCHANGED << mainVars, seconds, cmdArgs, spawned, smiUp, lineVars, lastUpdated,
                  gaugeVec, now >>

\* RegStat registering the first stat's vector on every turn of the loop
RegStat_SameStat ==
  /\ SamplerRuns /\ pc = "regStat"
  /\ req' = Overlap /\ response' = NoScrape
  /\ MustRegister(stats[1].metric)
  /\ queryValues' = Append(queryValues, stats[idx + 1].name)
  /\ IF idx + 1 < NumStats
     THEN idx' = idx + 1 /\ UNCHANGED pc
     ELSE idx' = 0 /\ pc' = "chkInterval"
  /\ UNCHANGED << mainVars, seconds, cmdArgs, spawned, smiUp, lineVars, lastUpdated,
                  gaugeVec, now >>

\* one turn of: for _, stat := range stats { MustRegister(stat.metric); append }
RegStat ==
  /\ SamplerRuns /\ pc = "regStat"
  /\ req' = Overlap /\ response' = NoScrape
  /\ MustRegister(stats[idx + 1].metric)
  /\ queryValues' = Append(queryValues, stats[idx + 1].name)
  /\ IF idx + 1 < NumStats
     THEN idx' = idx + 1 /\ UNCHANGED pc
     ELSE idx' = 0 /\ pc' = "chkInterval"
  /\ UNCHANGED << mainVars, seconds, cmdArgs, spawned, smiUp, lineVars, lastUpdated,
                  gaugeVec, now >>

\* seconds := Sprintf("%.0f", interval.Seconds()); if seconds == "0" { log.Fatalf }
ChkInterval ==
  /\ SamplerRuns /\ pc = "chkInterval"
  /\ req' = Overlap /\ response' = NoScrape
  /\ seconds' = FormatSeconds(interval)
  /\ IF seconds' = "0"
     THEN exit' = "interval" /\ UNCHANGED pc
     ELSE pc' = "spawn" /\ UNCHANGED exit
  /\ UNCHANGED << mainVars, idx, regLog, queryValues, cmdArgs, spawned, smiUp, lineVars,
                  lastUpdated, gaugeVec, now >>

RECURSIVE JoinComma(_)
JoinComma(ss) ==
  IF Len(ss) = 0 THEN ""
  ELSE IF Len(ss) = 1 THEN ss[1]
  ELSE ss[1] \o "," \o JoinComma(Tail(ss))

\* cmd := exec.Command(...); cmd.Start(), whose error is dropped
Spawn ==
  /\ SamplerRuns /\ pc = "spawn"
  /\ req' = Overlap /\ response' = NoScrape
  /\ cmdArgs' = << "nvidia-smi", "-l", seconds, "--format=csv,noheader,nounits",
                   "--query-gpu=" \o JoinComma(queryValues) >>
  /\ \E started \in BOOLEAN :
       /\ smiUp' = started
       /\ spawned' = IF started THEN spawned + 1 ELSE spawned
  /\ pc' = "read"
  /\ UNCHANGED << mainVars, idx, regLog, queryValues, seconds, lineVars, lastUpdated,
                  gaugeVec, now, exit >>

\* what the pipe can deliver to one ReadBytes call
Deliveries ==
  IF smiUp
  THEN Unterminated \cup (IF Len(hist) < MaxLines THEN Terminated ELSE {})
  ELSE { << >> }

\* ReadLine starting nvidia-smi again when the read fails
ReadLine_Retry ==
  /\ SamplerRuns /\ pc = "read"
  /\ req' = Overlap /\ response' = NoScrape
  /\ \E buf \in Deliveries :
       LET r == ReadBytes(buf)
       IN  IF r.err
           THEN /\ line' = r.line
                /\ pc' = "spawn"
                /\ UNCHANGED << exit, hist, before >>
           ELSE /\ line' = r.line
                /\ hist' = Append(hist, r.line)
                /\ before' = [vec |-> gaugeVec, last |-> lastUpdated]
                /\ pc' = "setLast"
                /\ UNCHANGED exit
  /\ UNCHANGED << mainVars, idx, regLog, cmdVars, data, gpu, lastUpdated, gaugeVec, now >>

\* line, err := cmdStdoutReader.ReadBytes('\n'); if err != nil { log.Fatalf }
ReadLine ==
  /\ SamplerRuns /\ pc = "read"
  /\ req' = Overlap /\ response' = NoScrape
  /\ \E buf \in Deliveries :
       LET r == ReadBytes(buf)
       IN  IF r.err
           THEN /\ line' = r.line
                /\ exit' = "read"
                /\ UNCHANGED << pc, hist, before >>
           ELSE /\ line' = r.line
                /\ hist' = Append(hist, r.line)
                /\ before' = [vec |-> gaugeVec, last |-> lastUpdated]
                /\ pc' = "setLast"
                /\ UNCHANGED exit
  /\ UNCHANGED << mainVars, idx, regLog, cmdVars, data, gpu, lastUpdated, gaugeVec, now >>

\* SetLastUpdated leaving the gauge alone (the Set moved behind the parse)
SetLastUpdated_Skipped ==
  /\ SamplerRuns /\ pc = "setLast"
  /\ req' = Overlap /\ response' = NoScrape
  /\ pc' = "split"
  /\ UNCHANGED << mainVars, idx, regLog, cmdVars, lineVars, lastUpdated, gaugeVec, now,
                  exit >>

\* lastUpdated.Set(float64(time.Now().Unix())): the wall clock gives any time t,
\* later or, when it has been set back, earlier than the one it gave last
SetLastUpdated ==
  /\ SamplerRuns /\ pc = "setLast"
  /\ req' = Overlap /\ response' = NoScrape
  /\ \E t \in 1..MaxTime :
       /\ now' = t
       /\ lastUpdated' = t
  /\ pc' = "split"
  /\ UNCHANGED << mainVars, idx, regLog, cmdVars, lineVars, gaugeVec, exit >>

\* SplitLine rejecting only the lines that are too short
SplitLine_Lenient ==
  /\ SamplerRuns /\ pc = "split"
  /\ req' = Overlap /\ response' = NoScrape
  /\ line' = DropLast(line)
  /\ data' = Split(line')
  /\ IF Len(data') < NumStats + 1
     THEN exit' = "fieldcount" /\ UNCHANGED << pc, gpu, idx >>
     ELSE gpu' = data'[1] /\ idx' = 0 /\ pc' = "field" /\ UNCHANGED exit
  /\ UNCHANGED << mainVars, regLog, cmdVars, hist, before, lastUpdated,
                  gaugeVec, now >>

\* drop the \n, split, check the field count, gpu := data[0]
SplitLine ==
  /\ SamplerRuns /\ pc = "split"
  /\ req' = Overlap /\ response' = NoScrape
  /\ line' = DropLast(line)
  /\ data' = Split(line')
  /\ IF Len(data') # NumStats + 1
     THEN exit' = "fieldcount" /\ UNCHANGED << pc, gpu, idx >>
     ELSE gpu' = data'[1] /\ idx' = 0 /\ pc' = "field" /\ UNCHANGED exit
  /\ UNCHANGED << mainVars, regLog, cmdVars, hist, before, lastUpdated,
                  gaugeVec, now >>

\* WithField dropping the ParseFloat error (the zero it returns gets stored)
WithField_IgnoreError ==
  /\ SamplerRuns /\ pc = "field"
  /\ req' = Overlap /\ response' = NoScrape
  /\ gaugeVec' = [gaugeVec EXCEPT ![idx + 1] = WithChild(@, gpu)]
  /\ pc' = "set"
  /\ UNCHANGED << mainVars, idx, regLog, cmdVars, lineVars, lastUpdated, now, exit >>

\* WithField parsing the whole line and storing all its values under one lock
WithField_Atomic ==
  /\ SamplerRuns /\ pc = "field"
  /\ req' = Overlap /\ response' = NoScrape
  /\ LET bad == {j \in 0..(NumStats - 1) : ParseFloat(data[j + 2]).err}
     IN  IF bad # {}
         THEN /\ exit' = "parsefloat"
              /\ idx' = CHOOSE j \in bad : \A k \in bad : j <= k
              /\ UNCHANGED << gaugeVec, pc >>
         ELSE /\ gaugeVec' = [i \in 1..NumStats |->
                    SetChild(WithChild(gaugeVec[i], gpu), gpu, ParseFloat(data[i + 1]).value)]
              /\ idx' = 0 /\ pc' = "read"
              /\ UNCHANGED exit
  /\ UNCHANGED << mainVars, regLog, cmdVars, lineVars, lastUpdated, now >>

\* WithField checking every field of the line before it touches the first gauge
WithField_ValidateFirst ==
  /\ SamplerRuns /\ pc = "field"
  /\ req' = Overlap /\ response' = NoScrape
  /\ LET bad == {j \in 0..(NumStats - 1) : ParseFloat(data[j + 2]).err}
     IN  IF bad # {}
         THEN /\ exit' = "parsefloat"
              /\ idx' = CHOOSE j \in bad : \A k \in bad : j <= k
              /\ UNCHANGED << gaugeVec, pc >>
         ELSE /\ gaugeVec' = [gaugeVec EXCEPT ![idx + 1] = WithChild(@, gpu)]
              /\ pc' = "set"
              /\ UNCHANGED << exit, idx >>
  /\ UNCHANGED << mainVars, regLog, cmdVars, lineVars, lastUpdated, now >>

\* in a turn of the loop over stats: value, err := ParseFloat(data[i+1]);
\* if err != nil { log.Fatalf }; stat.metric.With(prometheus.Labels{"gpu": gpu})
WithField ==
  /\ SamplerRuns /\ pc = "field"
  /\ req' = Overlap /\ response' = NoScrape
  /\ IF ParseFloat(data[idx + 2]).err
     THEN /\ exit' = "parsefloat"
          /\ UNCHANGED << gaugeVec, pc >>
     ELSE /\ gaugeVec' = [gaugeVec EXCEPT ![idx + 1] = WithChild(@, gpu)]
          /\ pc' = "set"
          /\ UNCHANGED exit
  /\ UNCHANGED << mainVars, idx, regLog, cmdVars, lineVars, lastUpdated, now >>

\* SetField storing data[i] where the code stores data[i+1]
SetField_OffByOne ==
  /\ SamplerRuns /\ pc = "set"
  /\ req' = Overlap /\ response' = NoScrape
  /\ gaugeVec' = [gaugeVec EXCEPT
                    ![idx + 1] = SetChild(@, gpu, ParseFloat(data[idx + 1]).value)]
  /\ IF idx + 1 < NumStats
     THEN idx' = idx + 1 /\ pc' = "field"
     ELSE idx' = 0 /\ pc' = "read"
  /\ UNCHANGED << mainVars, regLog, cmdVars, lineVars, lastUpdated, now, exit >>

\* the rest of the turn: .Set(value) on that child, then the next stat or the next line
SetField ==
  /\ SamplerRuns /\ pc = "set"
  /\ req' = Overlap /\ response' = NoScrape
  /\ gaugeVec' = [gaugeVec EXCEPT
                    ![idx + 1] = SetChild(@, gpu, ParseFloat(data[idx + 2]).value)]
  /\ IF idx + 1 < NumStats
     THEN idx' = idx + 1 /\ pc' = "field"
     ELSE idx' = 0 /\ pc' = "read"
  /\ UNCHANGED << mainVars, regLog, cmdVars, lineVars, lastUpdated, now, exit >>

Next ==
  \/ MainGo
  \/ MainListen
  \/ ServeStart
  \/ ServeReadLast
  \/ ServeCollect
  \/ ServeRead
  \/ ServeEnd
  \/ RegLast
  \/ RegStat
  \/ ChkInterval
  \/ Spawn
  \/ ReadLine
  \/ SetLastUpdated
  \/ SplitLine
  \/ WithField
  \/ SetField

\* the program run with the default interval
Init == interval = DefaultInterval /\ StartState

Spec == Init /\ [][Next]_vars

\* the program run with any interval, followed up to the first read of the pipe
InitFlags == interval \in Intervals /\ StartState

NextFlags ==
  \/ MainGo
  \/ MainListen
  \/ ServeStart
  \/ ServeEnd
  \/ RegLast
  \/ RegStat
  \/ ChkInterval
  \/ Spawn

SpecFlags == InitFlags /\ [][NextFlags]_vars

TypeOK ==
  /\ exit \in {"none", "panic", "listen", "interval", "read", "fieldcount", "parsefloat"}
  /\ mpc \in {"go", "listen", "serving"}
  /\ pc \in {"idle", "regLast", "regStat", "chkInterval", "spawn", "read", "setLast",
             "split", "field", "set"}
  /\ idx \in 0..(NumStats - 1)
  /\ spawned \in 0..1
  /\ now \in 1..MaxTime
  /\ lastUpdated \in 0..MaxTime
  /\ Len(hist) <= MaxLines
  /\ req.open => req.span \in 0..MaxSpan
  /\ pc = "set" => gpu \in DOMAIN gaugeVec[idx + 1]

(***************************************************************************)
(* Notions the properties share.                                           *)
(***************************************************************************)
\* the fields of a line as ReadBytes returned it
Fields(l) == Split(DropLast(l))

\* the float that field i+1 of the current line denotes
FieldValue(i) == ParseFloat(data[i + 1]).value

FieldFails(i) == ParseFloat(data[i + 1]).err

ParseFailure == exit \in {"fieldcount", "parsefloat"}

\* the line is past the field-count check
InLoop == pc \in {"field", "set"} /\ Len(hist) > 0

\* the child of the line's gpu once the line's value for stat i is stored
Stored(i) == SetChild(WithChild(before.vec[i], gpu), gpu, FieldValue(i))

(***************************************************************************)
(* C1.  As claimed: a line whose parse fails never changes the last-updated*)
(* gauge, so when the process ends on a parse error the gauge holds what   *)
(* it held before that line was read.                                      *)
(***************************************************************************)
C1_Original == ParseFailure => lastUpdated = before.last

(***************************************************************************)
(* C1, amended.  The last-updated gauge is set to the current Unix time    *)
(* right after every successful read, before the line is parsed: the step  *)
(* that follows the read stores the time the wall clock gives, whatever it *)
(* is, no other step changes the gauge, and once a line is being split or  *)
(* parsed, and when the process has ended on a parse error of it, the      *)
(* gauge holds that time.                                                  *)
(***************************************************************************)
C1_LastUpdatedOnRead ==
  /\ []((pc \in {"split", "field", "set"} \/ ParseFailure) => lastUpdated = now)
  /\ [][(pc = "setLast" /\ pc' # pc) => (pc' = "split" /\ lastUpdated' = now')]_vars
  /\ [][lastUpdated' # lastUpdated => pc = "setLast"]_vars

C1_Witness ==
  /\ exit = "parsefloat"
  /\ Len(hist) = 2
  /\ before.last > 0
  /\ lastUpdated > before.last

\* the wall clock set back between two lines: the failing line stores an earlier
\* time than the line before it
C1_ClockSetBack ==
  /\ ParseFailure
  /\ Len(hist) = 2
  /\ lastUpdated > 0
  /\ lastUpdated < before.last

(***************************************************************************)
(* C2.  A line whose number of ", "-separated fields is not NumStats + 1   *)
(* ends the process at the field-count check with every stat gauge as it   *)
(* was when the line was read; the fields that reach the parse loop are    *)
(* exactly the fields of the line, neither cut nor padded, and no step     *)
(* follows the exit.                                                       *)
(***************************************************************************)
C2_FieldCountFatal ==
  /\ [] /\ (Len(hist) > 0 /\ pc \in {"read", "field", "set"}) =>
              (data = Fields(hist[Len(hist)]) /\ Len(data) = NumStats + 1)
        /\ exit = "fieldcount" =>
              /\ pc = "split"
              /\ data = Fields(hist[Len(hist)])
              /\ Len(data) # NumStats + 1
              /\ gaugeVec = before.vec
  /\ [][exit = "fieldcount" => UNCHANGED vars]_vars

C2_Witness ==
  /\ exit = "fieldcount"
  /\ Len(data) = NumStats
  /\ Len(hist) = 2
  /\ data[1] \in DOMAIN gaugeVec[1]

(***************************************************************************)
(* C3.  A line of NumStats + 1 fields with a field that is not a float     *)
(* ends the process at that field: the gauge of that field is not written, *)
(* not even created, every field before it was a float (none was skipped), *)
(* a value is only stored for a field that is a float, a line is only      *)
(* completed when all its fields are floats, and no step follows the exit. *)
(***************************************************************************)
C3_NonNumericFatal ==
  /\ [] /\ exit = "parsefloat" =>
              /\ pc = "field"
              /\ FieldFails(idx + 1)
              /\ gaugeVec[idx + 1] = before.vec[idx + 1]
        /\ InLoop => \A i \in 1..idx : ~FieldFails(i)
        /\ pc = "set" => ~FieldFails(idx + 1)
        /\ (pc = "read" /\ Len(hist) > 0) => \A i \in 1..NumStats : ~FieldFails(i)
  /\ [][exit = "parsefloat" => UNCHANGED vars]_vars

C3_Witness ==
  /\ exit = "parsefloat"
  /\ idx = 0
  /\ data[2] = << "a", "b", "c" >>
  /\ gpu \in DOMAIN gaugeVec[1]

(***************************************************************************)
(* C4.  Between lines, every stat gauge has a child for exactly the gpus   *)
(* seen so far, and the child of stat i for gpu d holds the float of field *)
(* i+1 of the most recent line whose first field is d; while a line for    *)
(* one gpu is applied, the children of every other gpu are as they were    *)
(* when the line was read.                                                 *)
(***************************************************************************)
C4_GaugesFollowLatestLine ==
  /\ pc = "read" =>
       LET fs == [k \in 1..Len(hist) |-> Fields(hist[k])]
           seen == { fs[k][1] : k \in 1..Len(hist) }
           latest == [d \in seen |->
                        LET ks == { k \in 1..Len(hist) : fs[k][1] = d }
                        IN  fs[CHOOSE k \in ks : \A j \in ks : j <= k]]
       IN  \A i \in 1..NumStats :
             /\ DOMAIN gaugeVec[i] = seen
             /\ \A d \in seen : gaugeVec[i][d] = ParseFloat(latest[d][i + 1]).value
  /\ pc \in {"field", "set"} =>
       \A i \in 1..NumStats :
         \A d \in (DOMAIN gaugeVec[i]) \ {gpu} :
           d \in DOMAIN before.vec[i] /\ gaugeVec[i][d] = before.vec[i][d]

C4_Witness ==
  /\ pc = "read"
  /\ Len(hist) > 1
  /\ Fields(hist[1])[1] = Fields(hist[2])[1]
  /\ hist[1] # hist[2]
  /\ gaugeVec[6][gpu] = MkFloat(FALSE, 25, 1)

(***************************************************************************)
(* C5.  As claimed: nvidia-smi is started only for an interval of at least *)
(* one whole second, and every other interval ends the process at the      *)
(* interval check, before the spawn.  (Intervals are in tenths of a        *)
(* second: one second is 10.)                                              *)
(***************************************************************************)
C5_SpawnOnlyFromOneSecond ==
  /\ pc \in {"spawn", "read"} => interval >= 10
  /\ spawned > 0 => interval >= 10
  /\ exit = "interval" => (interval < 10 /\ spawned = 0)

(***************************************************************************)
(* C6.  As claimed: the seven gauges are registered before scrapeSmi is    *)
(* started, so the listener never serves while one of them is missing.     *)
(***************************************************************************)
C6_Original ==
  /\ pc # "idle" => AllGaugeNames \subseteq registered
  /\ mpc = "serving" => AllGaugeNames \subseteq registered

(***************************************************************************)
(* C6, amended.  scrapeSmi itself registers the seven gauges, each exactly *)
(* once and the last-updated gauge first, after it has been started and    *)
(* before the interval check, the spawn and every gauge write; nothing of  *)
(* the exporter is registered before it starts and no registration panics. *)
(* A /metrics response therefore may miss gauges: it holds the collectors  *)
(* of the prometheus package, the last-updated gauge only if it was        *)
(* registered when the request listed the collectors, and a stat gauge     *)
(* only if it was registered by then and has a child.                      *)
(***************************************************************************)
C6_RegisteredOnceBeforeSpawn ==
  /\ exit # "panic"
  /\ \A j, k \in 1..Len(regLog) : regLog[j] = regLog[k] => j = k
  /\ pc = "idle" => regLog = DefaultCollectors
  /\ pc = "regLast" => regLog = DefaultCollectors
  /\ pc = "regStat" =>
       regLog = DefaultCollectors \o << lastUpdatedName >>
                  \o [i \in 1..idx |-> stats[i].metric]
  /\ pc \in {"chkInterval", "spawn", "read", "setLast", "split", "field", "set"} =>
       regLog = DefaultCollectors \o << lastUpdatedName >>
                  \o [i \in 1..NumStats |-> stats[i].metric]
  /\ (spawned > 0 \/ lastUpdated # 0 \/ \E i \in 1..NumStats : gaugeVec[i] # NoChildren) =>
       AllGaugeNames \subseteq registered
  /\ response.taken =>
       /\ { DefaultCollectors[k] : k \in 1..Len(DefaultCollectors) } \subseteq response.names
       /\ response.names \subseteq registered
       /\ \A i \in 1..NumStats :
            stats[i].metric \in response.names <=> DOMAIN response.vec[i] # {}

C6_Witness ==
  /\ response.taken
  /\ mpc = "serving"
  /\ lastUpdatedName \in registered
  /\ lastUpdatedName \notin response.names

\* a response written when all seven gauges are registered holds one of them
C6_ServedWithoutChildren ==
  /\ response.taken
  /\ pc = "read"
  /\ response.names \cap AllGaugeNames = {lastUpdatedName}

(***************************************************************************)
(* C7.  A failed read ends the process in that very step with every gauge, *)
(* the last-updated gauge included, as it was, nothing follows it, and     *)
(* nvidia-smi is started at most once in the life of the process.          *)
(***************************************************************************)
C7_ReadFailureFatal ==
  /\ [](spawned <= 1)
  /\ [][(pc = "read" /\ hist' = hist /\ (pc' # pc \/ line' # line)) =>
          exit' = "read"]_vars
  /\ [][(exit = "none" /\ exit' = "read") =>
          /\ gaugeVec' = gaugeVec
          /\ lastUpdated' = lastUpdated
          /\ spawned' = spawned
          /\ hist' = hist]_vars
  /\ [][exit = "read" => UNCHANGED vars]_vars

C7_Witness ==
  /\ exit = "read"
  /\ spawned = 1
  /\ Len(hist) = 1
  /\ line \in GoodLines
  /\ lastUpdated > 0

(***************************************************************************)
(* C8.  The gauges of one line are written one at a time: no step changes  *)
(* more than one child of one stat gauge, and none changes a stat gauge    *)
(* together with the last-updated gauge.  A /metrics response is put       *)
(* together child by child: each child it reports exists, and holds zero   *)
(* or the float of that stat's field in some line read for that gpu, and   *)
(* the time it reports is zero or one the clock gave.  So a request served *)
(* in the middle of a line returns new values for some stats of the gpu    *)
(* and the previous line's values for the others.                          *)
(***************************************************************************)
C8_PerFieldUpdates ==
  /\ [][/\ Cardinality({ i \in 1..NumStats : gaugeVec'[i] # gaugeVec[i] }) <= 1
        /\ \A i \in 1..NumStats :
             /\ DOMAIN gaugeVec[i] \subseteq DOMAIN gaugeVec'[i]
             /\ Cardinality({ g \in DOMAIN gaugeVec'[i] :
                                g \notin DOMAIN gaugeVec[i]
                                \/ gaugeVec'[i][g] # gaugeVec[i][g] }) <= 1
        /\ lastUpdated' # lastUpdated => gaugeVec' = gaugeVec]_vars
  /\ [](response.taken =>
          /\ response.last \in {0, before.last, lastUpdated}
          /\ \A i \in 1..NumStats :
               \A g \in DOMAIN response.vec[i] :
                 /\ g \in DOMAIN gaugeVec[i]
                 /\ \/ response.vec[i][g] = Zero
                    \/ \E k \in 1..Len(hist) :
                         LET fs == Fields(hist[k])
                         IN  /\ Len(fs) = NumStats + 1
                             /\ fs[1] = g
                             /\ ~ParseFloat(fs[i + 1]).err
                             /\ response.vec[i][g] = ParseFloat(fs[i + 1]).value)

C8_Witness ==
  /\ response.taken
  /\ pc \in {"field", "set"}
  /\ gpu \in DOMAIN before.vec[NumStats]
  /\ \E i, j \in 1..NumStats :
       /\ response.vec[i][gpu] = FieldValue(i)
       /\ response.vec[i][gpu] # before.vec[i][gpu]
       /\ response.vec[j][gpu] = before.vec[j][gpu]
       /\ response.vec[j][gpu] # FieldValue(j)

\* a response that is no state of the registry: the previous line's value for a
\* stat written earlier, the new line's for one written later
C8_Torn ==
  /\ response.taken
  /\ pc \in {"field", "set"}
  /\ gpu \in DOMAIN before.vec[NumStats]
  /\ \E i, j \in 1..NumStats :
       /\ i < j
       /\ response.vec[i][gpu] = before.vec[i][gpu]
       /\ response.vec[i][gpu] # FieldValue(i)
       /\ response.vec[j][gpu] = FieldValue(j)
       /\ response.vec[j][gpu] # before.vec[j][gpu]

\* a response that shows the child of a new gpu between its With and its Set
C8_ZeroChild ==
  /\ response.taken
  /\ gpu \notin DOMAIN before.vec[1]
  /\ gpu \in DOMAIN response.vec[1]
  /\ response.vec[1][gpu] = Zero
  /\ FieldValue(1) # Zero

(***************************************************************************)
(* C9.  As claimed: the value after -l is the interval in seconds with the *)
(* fraction cut off, and it is at least 1.                                 *)
(***************************************************************************)
C9_Original ==
  cmdArgs # << >> =>
    (cmdArgs[3] = ToString(interval \div 10) /\ interval \div 10 >= 1)

\* the claim already fails on the intervals that are not negative (0.6 s, 1.6 s)
C9_OriginalNonNegative == interval >= 0 => C9_Original

(***************************************************************************)
(* C9, amended.  The value after -l is the interval in seconds rounded to  *)
(* the nearest whole number, a tie going to the even one (1.6 s gives 2,   *)
(* 2.5 s gives 2, 1.5 s gives 2), behind a minus sign when the interval is *)
(* negative; it is never the text "0", and it is at least 1 for every      *)
(* interval above half a second.                                           *)
(***************************************************************************)
C9_RoundedSeconds ==
  cmdArgs # << >> =>
    /\ cmdArgs[2] = "-l"
    /\ cmdArgs[3] # "0"
    /\ \E n \in 0..(MaxIntervalDs + 10) :
         /\ cmdArgs[3] = (IF interval < 0 THEN "-" \o ToString(n) ELSE ToString(n))
         /\ Abs(10 * n - Abs(interval)) <= 5
         /\ Abs(10 * n - Abs(interval)) = 5 => n % 2 = 0
         /\ interval > 5 => n >= 1

C9_Witness ==
  /\ cmdArgs # << >>
  /\ interval = 16
  /\ cmdArgs[3] = "2"
  /\ spawned = 1

(***************************************************************************)
(* C10.  A line of NumStats + 1 fields whose first non-float field belongs *)
(* to stat k is applied up to it: while the line is in the parse loop, and *)
(* when the process has ended on that field, the gauges of the stats       *)
(* before k hold the line's values for its gpu, and the gauges of stat k   *)
(* and of the stats after it, like those of every other gpu, are as they   *)
(* were when the line was read (between the With and the Set of a float    *)
(* field, its gauge has the child of the gpu, holding zero if it is new).  *)
(***************************************************************************)
C10_PrefixApplied ==
  InLoop =>
    /\ exit = "parsefloat" => (pc = "field" /\ FieldFails(idx + 1))
    /\ \A i \in 1..idx : ~FieldFails(i) /\ gaugeVec[i] = Stored(i)
    /\ pc = "field" => \A i \in (idx + 1)..NumStats : gaugeVec[i] = before.vec[i]
    /\ pc = "set" =>
         /\ gaugeVec[idx + 1] = WithChild(before.vec[idx + 1], gpu)
         /\ \A i \in (idx + 2)..NumStats : gaugeVec[i] = before.vec[i]

C10_Witness ==
  /\ exit = "parsefloat"
  /\ idx = 3
  /\ Len(hist) = 2
  /\ gpu \in DOMAIN before.vec[1]
  /\ gaugeVec[3][gpu] # before.vec[3][gpu]
  /\ gaugeVec[4][gpu] = before.vec[4][gpu]

\* the partly applied line is what a request served before the exit returns
C10_Observed ==
  /\ response.taken
  /\ pc = "field"
  /\ idx = 3
  /\ FieldFails(idx + 1)
  /\ response.vec = gaugeVec
  /\ gpu \in DOMAIN before.vec[1]
  /\ response.vec[3][gpu] # before.vec[3][gpu]
  /\ response.vec[4][gpu] = before.vec[4][gpu]

====
